---- MODULE Spec2Model ----
(***************************************************************************)
(* Countdown Timer of cpp-toolbox/timer.                                   *)
(*                                                                         *)
(* Two revisions of the class are in the repository:                       *)
(*   - src/timer.cpp: the out-of-line implementation, with the validating  *)
(*     constructor, time_up_and_try_to_restart and change_duration;        *)
(*   - src/timer.hpp (and the undocumented copy src/unnamed/part_000): the *)
(*     header-only class whose constructor does not validate.              *)
(* Spec is the state machine of the first, SpecHpp of the second.          *)
(*                                                                         *)
(* In Spec and SpecHpp the clock is read at whole seconds and a duration   *)
(* is a whole number of seconds: there the conversions between the clock's *)
(* ticks and double seconds are exact.  A double that results from a       *)
(* division is kept as an exact fraction [num, den] in lowest terms        *)
(* (den = 0 stands for the non-finite results of dividing by 0.0).         *)
(* SpecLive is Spec with an advancing clock and a polling caller.          *)
(* SpecFp is timer.cpp with fractional durations: the clock ticks          *)
(* TicksPerSecond times a second and every double operation rounds to      *)
(* FpBits significant bits, as IEEE doubles do to 53.                      *)
(***************************************************************************)
EXTENDS Integers, Sequences, FiniteSets, TLC

\* ---------------------------------------------------------------- bounds
MaxTime == 5      \* the clock is read in 0..MaxTime
MaxDur  == 3      \* largest duration argument
MaxSkew == 1      \* clock advance between two reads inside one call

FpBits == 3          \* significant bits of a double in SpecFp
TicksPerSecond == 3  \* steady_clock ticks in a second in SpecFp
FpScale == 3         \* durations in SpecFp go down to 2^-FpScale seconds

\* the duration arguments tried; -1 and 0 are the non-positive ones
Durations == (0 - 1)..MaxDur

VARIABLES
    now,      \* std::chrono::steady_clock::now()
    status,   \* "none": not constructed, "live": constructed, "thrown": constructor threw
    timer,    \* the Timer object: [duration, start_time, running]
    twin,     \* a second Timer built with start_immediately = false, then start()
    call,     \* the last call: [op, arg, flag, ret]
    twinRet,  \* what the same call returned on twin
    hist,     \* history of the object: what was called on it, was it seen expired
    polled    \* history of the polls: the last values they returned

vars == <<now, status, timer, twin, call, twinRet, hist, polled>>

\* ------------------------------------------------------------ arithmetic
Abs(n) == IF n < 0 THEN 0 - n ELSE n

RECURSIVE GCD(_, _)
GCD(a, b) == IF b = 0 THEN a ELSE GCD(b, a % b)

\* double / double, exact: n / d in lowest terms with a positive denominator;
\* x / 0.0 is +inf (num 1, den 0) for x > 0 and NaN (num 0, den 0) for x = 0.
Div(n, d) ==
    IF d = 0 THEN [num |-> IF n > 0 THEN 1 ELSE IF n < 0 THEN 0 - 1 ELSE 0, den |-> 0]
    ELSE LET g == GCD(Abs(n), Abs(d))
             s == IF d < 0 THEN 0 - 1 ELSE 1
         IN  [num |-> s * (n \div g), den |-> s * (d \div g)]

Zero == [num |-> 0, den |-> 1]
One  == [num |-> 1, den |-> 1]

\* a < b on doubles; every comparison with NaN is false, +inf is below nothing
Less(a, b) ==
    IF a.den = 0 \/ b.den = 0
    THEN (a.den = 0 /\ a.num < 0 /\ ~(b.den = 0 /\ b.num <= 0))
         \/ (b.den = 0 /\ b.num > 0 /\ a.den # 0)
    ELSE a.num * b.den < b.num * a.den

LessEq(a, b) == a = b \/ Less(a, b)

\* --------------------------------------------------- the class, timer.cpp
NoTimer == [duration |-> 0, start_time |-> 0, running |-> FALSE]

\* variant: the running flag is toggled, not set
start_toggles(t, clk) == [t EXCEPT !.start_time = clk, !.running = ~t.running]

\* void Timer::start()
start(t, clk) == [t EXCEPT !.start_time = clk, !.running = TRUE]

\* variant: < where the code has <=, so that a duration of 0.0 is accepted
Timer_accepts_zero(duration_seconds, start_immediately, clk) ==
    LET t0 == [duration |-> duration_seconds, start_time |-> 0, running |-> FALSE]
    IN  IF duration_seconds < 0
        THEN [thrown |-> TRUE, t |-> NoTimer]
        ELSE [thrown |-> FALSE,
              t |-> IF start_immediately THEN start(t0, clk) ELSE t0]

\* variant: the constructor starts whatever start_immediately says
Timer_starts_always(duration_seconds, start_immediately, clk) ==
    LET t0 == [duration |-> duration_seconds, start_time |-> 0, running |-> FALSE]
    IN  IF duration_seconds <= 0
        THEN [thrown |-> TRUE, t |-> NoTimer]
        ELSE [thrown |-> FALSE, t |-> start(t0, clk)]

\* variant: the constructor forgets start_immediately
Timer_never_starts(duration_seconds, start_immediately, clk) ==
    LET t0 == [duration |-> duration_seconds, start_time |-> 0, running |-> FALSE]
    IN  IF duration_seconds <= 0
        THEN [thrown |-> TRUE, t |-> NoTimer]
        ELSE [thrown |-> FALSE, t |-> t0]

\* Timer::Timer(double duration_seconds, bool start_immediately)
Timer(duration_seconds, start_immediately, clk) ==
    LET t0 == [duration |-> duration_seconds, start_time |-> 0, running |-> FALSE]
    IN  IF duration_seconds <= 0
        THEN [thrown |-> TRUE, t |-> NoTimer]
        ELSE [thrown |-> FALSE,
              t |-> IF start_immediately THEN start(t0, clk) ELSE t0]

\* variant: == where the code has >=
time_up_eq(t, clk) ==
    IF ~t.running THEN FALSE
    ELSE clk - t.start_time = t.duration

\* variant: the operands of the subtraction are swapped
time_up_swapped(t, clk) ==
    IF ~t.running THEN FALSE
    ELSE t.start_time - clk >= t.duration

\* bool Timer::time_up() const
time_up(t, clk) ==
    IF ~t.running THEN FALSE
    ELSE clk - t.start_time >= t.duration

\* variant: the restart is anchored to the expiry instant, not to the clock
time_up_and_try_to_restart_no_drift(t, clk, clk2) ==
    LET time_is_up == time_up(t, clk)
    IN  [ret |-> time_is_up,
         t   |-> IF time_is_up THEN start(t, t.start_time + t.duration) ELSE t]

\* variant: the restart is left out
time_up_and_try_to_restart_no_start(t, clk, clk2) ==
    LET time_is_up == time_up(t, clk)
    IN  [ret |-> time_is_up, t |-> t]

\* variant: start() is called whatever time_up() said
time_up_and_try_to_restart_always(t, clk, clk2) ==
    LET time_is_up == time_up(t, clk)
    IN  [ret |-> time_is_up, t |-> start(t, clk2)]

\* bool Timer::time_up_and_try_to_restart(); the clock is read once by
\* time_up() and once more by start()
time_up_and_try_to_restart(t, clk, clk2) ==
    LET time_is_up == time_up(t, clk)
    IN  [ret |-> time_is_up,
         t   |-> IF time_is_up THEN start(t, clk2) ELSE t]

\* variant: the result is not clamped at zero
get_remaining_time_unclamped(t, clk) ==
    IF ~t.running THEN t.duration
    ELSE LET elapsed == clk - t.start_time
         IN  t.duration - elapsed

\* double Timer::get_remaining_time() const
get_remaining_time(t, clk) ==
    IF ~t.running THEN t.duration
    ELSE LET elapsed   == clk - t.start_time
             remaining == t.duration - elapsed
         IN  IF remaining > 0 THEN remaining ELSE 0

\* variant: a running timer only ever gets a longer duration
change_duration_grows(t, duration_seconds) ==
    IF duration_seconds <= 0 \/ (t.running /\ duration_seconds < t.duration) THEN t
    ELSE [t EXCEPT !.duration = duration_seconds]

\* variant: < where the code has <=, so that 0.0 is stored
change_duration_nonneg(t, duration_seconds) ==
    IF duration_seconds < 0 THEN t
    ELSE [t EXCEPT !.duration = duration_seconds]

\* variant: the timer is stopped when its duration changes
change_duration_stops(t, duration_seconds) ==
    IF duration_seconds <= 0 THEN t
    ELSE [t EXCEPT !.duration = duration_seconds, !.running = FALSE]

\* void Timer::change_duration(double duration_seconds)
change_duration(t, duration_seconds) ==
    IF duration_seconds <= 0 THEN t
    ELSE [t EXCEPT !.duration = duration_seconds]

\* double Timer::get_percent_complete() const
get_percent_complete(t, clk) ==
    IF ~t.running THEN Zero
    ELSE LET elapsed  == clk - t.start_time
             progress == Div(elapsed, t.duration)
         IN  IF Less(progress, One) THEN progress ELSE One

\* ------------------------------------------------------------- histories
\* elapsed time is beyond the configured duration
Exceeds(t, clk) == t.running /\ clk - t.start_time > t.duration

NoHist == [d |-> 0, si |-> FALSE, started |-> FALSE, changed |-> FALSE,
           up |-> FALSE, upL |-> FALSE, prev |-> 0,
           hasPulse |-> FALSE, pulse |-> 0, pulseCut |-> FALSE]

\* up:  elapsed has exceeded the duration at some instant since the last start()
\* upL: the same, since the last start() or lengthening change_duration
Note(h, t, clk) ==
    [h EXCEPT !.up = h.up \/ Exceeds(t, clk), !.upL = h.upL \/ Exceeds(t, clk)]

Started(h) == [h EXCEPT !.started = TRUE, !.up = FALSE, !.upL = FALSE]

\* pulse: the clock time at which time_up_and_try_to_restart last returned true;
\* pulseCut: change_duration was called since
Pulsed(h, clk) == [h EXCEPT !.hasPulse = TRUE, !.pulse = clk, !.pulseCut = FALSE]

NoPolls == [hasRem |-> FALSE, rem |-> 0, remCut |-> FALSE,
            hasPct |-> FALSE, pct |-> Zero, pctCut |-> FALSE]

\* what a call returned: a bool (b), a double (n, or q when it is a quotient),
\* or the exception it threw (err); the fields a call does not use keep Void's
Void == [b |-> FALSE, n |-> 0, q |-> Zero, err |-> ""]
Bool(x) == [Void EXCEPT !.b = x]
Num(x)  == [Void EXCEPT !.n = x]
Quot(x) == [Void EXCEPT !.q = x]
Outcome(thrown) == [Void EXCEPT !.err = IF thrown THEN "invalid_argument" ELSE ""]

Call(o, a, f, r) == [op |-> o, arg |-> a, flag |-> f, ret |-> r]

\* ------------------------------------------------- operations, timer.cpp
\* the steady clock advances
Tick ==
    /\ now < MaxTime
    /\ now' = now + 1
    /\ call' = Call("tick", 0, FALSE, Void)
    /\ twinRet' = Void
    /\ hist' = IF status = "live" THEN Note(hist, timer, now') ELSE hist
    /\ UNCHANGED <<status, timer, twin, polled>>

\* Timer t(duration_seconds, start_immediately); twin is Timer(duration_seconds,
\* false) followed, when start_immediately, by start() at the same instant
Construct ==
    /\ status = "none"
    /\ \E duration_seconds \in Durations, start_immediately \in BOOLEAN :
         LET r == Timer(duration_seconds, start_immediately, now)
             w == Timer(duration_seconds, FALSE, now)
         IN  /\ status' = IF r.thrown THEN "thrown" ELSE "live"
             /\ timer' = r.t
             /\ twin' = IF w.thrown THEN w.t
                        ELSE IF start_immediately THEN start(w.t, now) ELSE w.t
             /\ call' = Call("Timer", duration_seconds, start_immediately,
                             Outcome(r.thrown))
             /\ twinRet' = Outcome(w.thrown)
             /\ hist' = Note([NoHist EXCEPT !.d = duration_seconds,
                                            !.si = start_immediately,
                                            !.started = start_immediately /\ ~r.thrown],
                             r.t, now)
    /\ UNCHANGED <<now, polled>>

\* t.start()
Start ==
    /\ status = "live"
    /\ timer' = start(timer, now)
    /\ twin' = start(twin, now)
    /\ call' = Call("start", 0, FALSE, Void)
    /\ twinRet' = Void
    /\ hist' = Note(Started(hist), timer', now)
    /\ polled' = NoPolls
    /\ UNCHANGED <<now, status>>

\* variant: time_up() stops the timer once it has seen it expired
TimeUp_stops ==
    /\ status = "live"
    /\ call' = Call("time_up", 0, FALSE, Bool(time_up(timer, now)))
    /\ twinRet' = Bool(time_up(twin, now))
    /\ timer' = IF time_up(timer, now) THEN [timer EXCEPT !.running = FALSE] ELSE timer
    /\ UNCHANGED <<now, status, twin, hist, polled>>

\* t.time_up()
TimeUp ==
    /\ status = "live"
    /\ call' = Call("time_up", 0, FALSE, Bool(time_up(timer, now)))
    /\ twinRet' = Bool(time_up(twin, now))
    /\ UNCHANGED <<now, status, timer, twin, hist, polled>>

\* t.time_up_and_try_to_restart(); when it restarts, the clock may have advanced
\* by skew between the read in time_up() and the read in start()
TimeUpAndTryToRestart ==
    /\ status = "live"
    /\ \E skew \in 0..MaxSkew :
         LET clk2 == now + skew
             r == time_up_and_try_to_restart(timer, now, clk2)
             w == time_up_and_try_to_restart(twin, now, clk2)
         IN  /\ clk2 <= MaxTime
             /\ r.ret \/ skew = 0
             /\ now' = clk2
             /\ timer' = r.t
             /\ twin' = w.t
             /\ call' = Call("time_up_and_try_to_restart", 0, FALSE, Bool(r.ret))
             /\ twinRet' = Bool(w.ret)
             /\ hist' = IF r.ret THEN Note(Pulsed(Started(hist), clk2), r.t, clk2)
                        ELSE hist
             /\ polled' = IF r.ret
                          THEN [polled EXCEPT !.remCut = TRUE, !.pctCut = TRUE]
                          ELSE polled
    /\ UNCHANGED status

\* t.get_remaining_time()
GetRemainingTime ==
    /\ status = "live"
    /\ LET r == get_remaining_time(timer, now)
       IN  /\ call' = Call("get_remaining_time", 0, FALSE, Num(r))
           /\ polled' = IF timer.running
                        THEN [polled EXCEPT !.hasRem = TRUE, !.rem = r, !.remCut = FALSE]
                        ELSE polled
    /\ twinRet' = Num(get_remaining_time(twin, now))
    /\ UNCHANGED <<now, status, timer, twin, hist>>

\* t.get_percent_complete()
GetPercentComplete ==
    /\ status = "live"
    /\ LET r == get_percent_complete(timer, now)
       IN  /\ call' = Call("get_percent_complete", 0, FALSE, Quot(r))
           /\ polled' = IF timer.running
                        THEN [polled EXCEPT !.hasPct = TRUE, !.pct = r, !.pctCut = FALSE]
                        ELSE polled
    /\ twinRet' = Quot(get_percent_complete(twin, now))
    /\ UNCHANGED <<now, status, timer, twin, hist>>

\* t.change_duration(duration_seconds)
ChangeDuration ==
    /\ status = "live"
    /\ \E duration_seconds \in Durations :
         /\ timer' = change_duration(timer, duration_seconds)
         /\ twin' = change_duration(twin, duration_seconds)
         /\ call' = Call("change_duration", duration_seconds, FALSE, Void)
         /\ hist' = LET h == [hist EXCEPT !.changed = TRUE,
                                          !.prev = timer.duration,
                                          !.pulseCut = TRUE,
                                          !.upL = IF timer'.duration > timer.duration
                                                  THEN FALSE ELSE hist.upL]
                    IN  Note(h, timer', now)
    /\ twinRet' = Void
    /\ polled' = NoPolls
    /\ UNCHANGED <<now, status>>

Init ==
    /\ now = 0
    /\ status = "none"
    /\ timer = NoTimer
    /\ twin = NoTimer
    /\ call = Call("none", 0, FALSE, Void)
    /\ twinRet = Void
    /\ hist = NoHist
    /\ polled = NoPolls

Next ==
    \/ Tick
    \/ Construct
    \/ Start
    \/ TimeUp
    \/ TimeUpAndTryToRestart
    \/ GetRemainingTime
    \/ GetPercentComplete
    \/ ChangeDuration

Spec == Init /\ [][Next]_vars

\* the same class driven by an advancing clock and a caller that keeps polling:
\* the clock ticks while it can, time_up() and time_up_and_try_to_restart()
\* are called again and again; the two queries that play no part in expiry
\* are left to Spec
NextLive ==
    \/ Tick
    \/ Construct
    \/ Start
    \/ TimeUp
    \/ TimeUpAndTryToRestart
    \/ ChangeDuration

SpecLive ==
    /\ Init /\ [][NextLive]_vars
    /\ WF_vars(Tick)
    /\ WF_vars(TimeUp)
    /\ WF_vars(TimeUpAndTryToRestart)

\* ------------------------------------- the header-only class, timer.hpp
\* void start()
hpp_start(t, clk) == [t EXCEPT !.start_time = clk, !.running = TRUE]

\* explicit Timer(double duration_seconds, bool start_immediately = false):
\* no test of duration_seconds, nothing is thrown
hpp_Timer(duration_seconds, start_immediately, clk) ==
    LET t0 == [duration |-> duration_seconds, start_time |-> 0, running |-> FALSE]
    IN  [thrown |-> FALSE,
         t |-> IF start_immediately THEN hpp_start(t0, clk) ELSE t0]

\* bool time_up() const
hpp_time_up(t, clk) ==
    IF ~t.running THEN FALSE
    ELSE clk - t.start_time >= t.duration

\* double get_remaining_time() const
hpp_get_remaining_time(t, clk) ==
    IF ~t.running THEN t.duration
    ELSE LET elapsed   == clk - t.start_time
             remaining == t.duration - elapsed
         IN  IF remaining > 0 THEN remaining ELSE 0

\* double get_percent_complete() const
hpp_get_percent_complete(t, clk) ==
    IF ~t.running THEN Zero
    ELSE LET elapsed  == clk - t.start_time
             progress == Div(elapsed, t.duration)
         IN  IF Less(progress, One) THEN progress ELSE One

\* Timer t(duration_seconds, start_immediately) of timer.hpp
HppConstruct ==
    /\ status = "none"
    /\ \E duration_seconds \in Durations, start_immediately \in BOOLEAN :
         LET r == hpp_Timer(duration_seconds, start_immediately, now)
             w == hpp_Timer(duration_seconds, FALSE, now)
         IN  /\ status' = IF r.thrown THEN "thrown" ELSE "live"
             /\ timer' = r.t
             /\ twin' = IF start_immediately THEN hpp_start(w.t, now) ELSE w.t
             /\ call' = Call("Timer", duration_seconds, start_immediately,
                             Outcome(r.thrown))
             /\ twinRet' = Outcome(w.thrown)
             /\ hist' = Note([NoHist EXCEPT !.d = duration_seconds,
                                            !.si = start_immediately,
                                            !.started = start_immediately],
                             r.t, now)
    /\ UNCHANGED <<now, polled>>

\* t.start() of timer.hpp
HppStart ==
    /\ status = "live"
    /\ timer' = hpp_start(timer, now)
    /\ twin' = hpp_start(twin, now)
    /\ call' = Call("start", 0, FALSE, Void)
    /\ twinRet' = Void
    /\ hist' = Note(Started(hist), timer', now)
    /\ polled' = NoPolls
    /\ UNCHANGED <<now, status>>

\* t.time_up() of timer.hpp
HppTimeUp ==
    /\ status = "live"
    /\ call' = Call("time_up", 0, FALSE, Bool(hpp_time_up(timer, now)))
    /\ twinRet' = Bool(hpp_time_up(twin, now))
    /\ UNCHANGED <<now, status, timer, twin, hist, polled>>

\* t.get_remaining_time() of timer.hpp
HppGetRemainingTime ==
    /\ status = "live"
    /\ LET r == hpp_get_remaining_time(timer, now)
       IN  /\ call' = Call("get_remaining_time", 0, FALSE, Num(r))
           /\ polled' = IF timer.running
                        THEN [polled EXCEPT !.hasRem = TRUE, !.rem = r, !.remCut = FALSE]
                        ELSE polled
    /\ twinRet' = Num(hpp_get_remaining_time(twin, now))
    /\ UNCHANGED <<now, status, timer, twin, hist>>

\* t.get_percent_complete() of timer.hpp
HppGetPercentComplete ==
    /\ status = "live"
    /\ LET r == hpp_get_percent_complete(timer, now)
       IN  /\ call' = Call("get_percent_complete", 0, FALSE, Quot(r))
           /\ polled' = IF timer.running
                        THEN [polled EXCEPT !.hasPct = TRUE, !.pct = r, !.pctCut = FALSE]
                        ELSE polled
    /\ twinRet' = Quot(hpp_get_percent_complete(twin, now))
    /\ UNCHANGED <<now, status, timer, twin, hist>>

NextHpp ==
    \/ Tick
    \/ HppConstruct
    \/ HppStart
    \/ HppTimeUp
    \/ HppGetRemainingTime
    \/ HppGetPercentComplete

SpecHpp == Init /\ [][NextHpp]_vars

\* ------------------------------ timer.cpp with rounding doubles, SpecFp
Frac(n) == [num |-> n, den |-> 1]

\* a * k, a - b and a / b before rounding
MulInt(a, k) == Div(a.num * k, a.den)
SubQ(a, b)   == Div(a.num * b.den - b.num * a.den, a.den * b.den)
DivQ(a, b)   == Div(a.num * b.den, a.den * b.num)

Pow2(k) == IF k = 0 THEN 1 ELSE IF k = 1 THEN 2 ELSE IF k = 2 THEN 4
           ELSE IF k = 3 THEN 8 ELSE IF k = 4 THEN 16 ELSE 32

\* n / m scaled by a / b, a power of two, into [2^(FpBits-1), 2^FpBits)
RECURSIVE Scale(_, _, _, _)
Scale(n, m, a, b) ==
    IF n < m * Pow2(FpBits - 1) THEN Scale(2 * n, m, 2 * a, b)
    ELSE IF n >= m * Pow2(FpBits) THEN Scale(n, 2 * m, a, 2 * b)
    ELSE [n |-> n, m |-> m, a |-> a, b |-> b]

\* the double nearest to x, ties to the even significand
Round(x) ==
    IF x.num = 0 \/ x.den = 0 THEN x
    ELSE LET sg == IF x.num < 0 THEN 0 - 1 ELSE 1
             r  == Scale(Abs(x.num), x.den, 1, 1)
             q  == r.n \div r.m
             rm == r.n % r.m
             up == 2 * rm > r.m \/ (2 * rm = r.m /\ q % 2 = 1)
         IN  Div(sg * (IF up THEN q + 1 ELSE q) * r.b, r.a)

\* the doubles tried as durations: 0.0 and significand / 2^k
FpDurations ==
    {Zero} \cup {Div(m, Pow2(k)) : m \in Pow2(FpBits - 1)..(Pow2(FpBits) - 1),
                                   k \in 0..FpScale}

FpNoTimer == [duration |-> Zero, start_time |-> 0, running |-> FALSE]

\* void Timer::start()
fp_start(t, clk) == [t EXCEPT !.start_time = clk, !.running = TRUE]

\* Timer::Timer(double duration_seconds, bool start_immediately)
fp_Timer(duration_seconds, start_immediately, clk) ==
    LET t0 == [duration |-> duration_seconds, start_time |-> 0, running |-> FALSE]
    IN  IF LessEq(duration_seconds, Zero)
        THEN [thrown |-> TRUE, t |-> FpNoTimer]
        ELSE [thrown |-> FALSE,
              t |-> IF start_immediately THEN fp_start(t0, clk) ELSE t0]

\* bool Timer::time_up() const: both sides go to duration<double, nano>, the
\* tick count exactly, the duration as duration * ticks-per-second, rounded
fp_time_up(t, clk) ==
    IF ~t.running THEN FALSE
    ELSE ~Less(Frac(clk - t.start_time), Round(MulInt(t.duration, TicksPerSecond)))

\* double Timer::get_remaining_time() const: elapsed goes to double seconds as
\* ticks / ticks-per-second, rounded
fp_get_remaining_time(t, clk) ==
    IF ~t.running THEN t.duration
    ELSE LET elapsed   == Round(Div(clk - t.start_time, TicksPerSecond))
             remaining == Round(SubQ(t.duration, elapsed))
         IN  IF Less(Zero, remaining) THEN remaining ELSE Zero

\* void Timer::change_duration(double duration_seconds)
fp_change_duration(t, duration_seconds) ==
    IF LessEq(duration_seconds, Zero) THEN t
    ELSE [t EXCEPT !.duration = duration_seconds]

\* double Timer::get_percent_complete() const
fp_get_percent_complete(t, clk) ==
    IF ~t.running THEN Zero
    ELSE LET elapsed  == Round(Div(clk - t.start_time, TicksPerSecond))
             progress == Round(DivQ(elapsed, t.duration))
         IN  IF Less(progress, One) THEN progress ELSE One

FpVoid == [b |-> FALSE, n |-> Zero, q |-> Zero, err |-> ""]

FpTick ==
    /\ now < MaxTime
    /\ now' = now + 1
    /\ call' = Call("tick", Zero, FALSE, FpVoid)
    /\ UNCHANGED <<status, timer, twin, twinRet, hist, polled>>

FpConstruct ==
    /\ status = "none"
    /\ \E duration_seconds \in FpDurations, start_immediately \in BOOLEAN :
         LET r == fp_Timer(duration_seconds, start_immediately, now)
         IN  /\ status' = IF r.thrown THEN "thrown" ELSE "live"
             /\ timer' = r.t
             /\ call' = Call("Timer", duration_seconds, start_immediately,
                             [FpVoid EXCEPT !.err = IF r.thrown
                                                    THEN "invalid_argument" ELSE ""])
    /\ UNCHANGED <<now, twin, twinRet, hist, polled>>

FpStart ==
    /\ status = "live"
    /\ timer' = fp_start(timer, now)
    /\ call' = Call("start", Zero, FALSE, FpVoid)
    /\ UNCHANGED <<now, status, twin, twinRet, hist, polled>>

FpTimeUp ==
    /\ status = "live"
    /\ call' = Call("time_up", Zero, FALSE,
                    [FpVoid EXCEPT !.b = fp_time_up(timer, now)])
    /\ UNCHANGED <<now, status, timer, twin, twinRet, hist, polled>>

FpGetRemainingTime ==
    /\ status = "live"
    /\ call' = Call("get_remaining_time", Zero, FALSE,
                    [FpVoid EXCEPT !.n = fp_get_remaining_time(timer, now)])
    /\ UNCHANGED <<now, status, timer, twin, twinRet, hist, polled>>

FpGetPercentComplete ==
    /\ status = "live"
    /\ call' = Call("get_percent_complete", Zero, FALSE,
                    [FpVoid EXCEPT !.q = fp_get_percent_complete(timer, now)])
    /\ UNCHANGED <<now, status, timer, twin, twinRet, hist, polled>>

FpChangeDuration ==
    /\ status = "live"
    /\ \E duration_seconds \in FpDurations :
         /\ timer' = fp_change_duration(timer, duration_seconds)
         /\ call' = Call("change_duration", duration_seconds, FALSE, FpVoid)
    /\ UNCHANGED <<now, status, twin, twinRet, hist, polled>>

InitFp ==
    /\ now = 0
    /\ status = "none"
    /\ timer = FpNoTimer
    /\ twin = FpNoTimer
    /\ call = Call("none", Zero, FALSE, FpVoid)
    /\ twinRet = FpVoid
    /\ hist = NoHist
    /\ polled = NoPolls

NextFp ==
    \/ FpTick
    \/ FpConstruct
    \/ FpStart
    \/ FpTimeUp
    \/ FpGetRemainingTime
    \/ FpGetPercentComplete
    \/ FpChangeDuration

SpecFp == InitFp /\ [][NextFp]_vars

\* =============================================================== claims

\* C1: a Timer constructed with d > 0 and start_immediately = false, on which
\* start() was never called (and whose duration was not changed), reports
\* time_up() = false, get_remaining_time() = d and get_percent_complete() = 0.0
\* at every clock time, both by the queries made now and by the last one made.
C1_NeverStartedReportsFullDuration ==
    (status = "live" /\ ~hist.started /\ ~hist.changed) =>
        /\ hist.d > 0
        /\ time_up(timer, now) = FALSE
        /\ get_remaining_time(timer, now) = hist.d
        /\ get_percent_complete(timer, now) = Zero
        /\ (call.op = "time_up" => call.ret.b = FALSE)
        /\ (call.op = "get_remaining_time" => call.ret.n = hist.d)
        /\ (call.op = "get_percent_complete" => call.ret.q = Zero)

C1_Witness ==
    /\ status = "live" /\ ~hist.started /\ ~hist.changed
    /\ now > hist.d
    /\ call.op = "get_remaining_time" /\ call.ret.n = hist.d

\* C2: constructing with duration_seconds <= 0 fails with invalid_argument for
\* either value of start_immediately, and no Timer object comes to exist.
C2_NonPositiveDurationThrows ==
    (status # "none" /\ hist.d <= 0) =>
        (status = "thrown" /\ (call.op = "Timer" => call.ret.err = "invalid_argument"))

\* C2 on timer.cpp alone: there the constructor does throw
C2_CppConstructorThrows ==
    /\ (status # "none" /\ hist.d <= 0) => status = "thrown"
    /\ status = "live" => hist.d > 0

\* C3 as stated: once elapsed time has exceeded the duration since the last
\* start(), every later time_up() returns true until the next start().
C3_TimeUpStaysTrueUntilStart ==
    (status = "live" /\ call.op = "time_up" /\ hist.up) => call.ret.b = TRUE

\* C3 amended: once elapsed time has exceeded the duration, every later
\* time_up() returns true until the next start() (direct, or made by
\* time_up_and_try_to_restart) or the next change_duration that lengthens the
\* duration.
C3_TimeUpStaysTrueUntilStartOrLengthen ==
    (status = "live" /\ call.op = "time_up" /\ hist.upL) => call.ret.b = TRUE

C3_Witness ==
    /\ status = "live" /\ call.op = "time_up" /\ call.ret.b = TRUE
    /\ hist.upL /\ hist.changed
    /\ now - timer.start_time > timer.duration + 1

\* C4 as stated: after start(), with no change_duration in between, successive
\* get_remaining_time() results never increase and successive
\* get_percent_complete() results never decrease.
C4_PollsMonotoneSinceStart ==
    [][/\ (call'.op = "get_remaining_time" /\ polled.hasRem)
            => call'.ret.n <= polled.rem
       /\ (call'.op = "get_percent_complete" /\ polled.hasPct)
            => LessEq(polled.pct, call'.ret.q)]_vars

\* C4 amended: after the last start(), with no change_duration and no restart
\* by time_up_and_try_to_restart in between, successive get_remaining_time()
\* results never increase, are never negative and are 0 from elapsed >= duration
\* on; successive get_percent_complete() results never decrease, never exceed
\* 1.0 and are 1.0 from elapsed >= duration on.
C4_PollsMonotoneSinceRestart ==
    [][/\ (call'.op = "get_remaining_time" /\ timer.running) =>
            /\ (polled.hasRem /\ ~polled.remCut) => call'.ret.n <= polled.rem
            /\ call'.ret.n >= 0
            /\ (now - timer.start_time >= timer.duration) => call'.ret.n = 0
       /\ (call'.op = "get_percent_complete" /\ timer.running) =>
            /\ (polled.hasPct /\ ~polled.pctCut) => LessEq(polled.pct, call'.ret.q)
            /\ LessEq(call'.ret.q, One)
            /\ (now - timer.start_time >= timer.duration) => call'.ret.q = One]_vars

C4_Witness ==
    /\ status = "live" /\ timer.running /\ ~hist.changed
    /\ call.op = "get_remaining_time" /\ call.ret.n = 0
    /\ now - timer.start_time > timer.duration
    /\ polled.hasPct /\ polled.pct # One /\ polled.pct # Zero /\ ~polled.pctCut

\* C5: time_up_and_try_to_restart() on an expired timer (running, elapsed >=
\* duration) returns true and starts the timer anew: the start reference is the
\* clock time, the duration is kept, and at that instant get_remaining_time()
\* is the whole duration and time_up() is false.
C5_RestartOnExpiry ==
    [][(/\ call'.op = "time_up_and_try_to_restart"
        /\ timer.running
        /\ now - timer.start_time >= timer.duration) =>
            /\ call'.ret.b = TRUE
            /\ timer'.running
            /\ timer'.start_time = now'
            /\ timer'.duration = timer.duration
            /\ get_remaining_time(timer', now') = timer.duration
            /\ time_up(timer', now') = FALSE]_vars

C5_Witness ==
    /\ status = "live" /\ call.op = "time_up_and_try_to_restart" /\ call.ret.b = TRUE
    /\ timer.start_time = now /\ now > timer.duration

\* C6: time_up_and_try_to_restart() on a timer that is not expired (never
\* started, or elapsed < duration) returns false and changes neither the
\* duration, the start reference nor the running flag, so the remaining time is
\* what it was.
C6_NoRestartBeforeExpiry ==
    [][(/\ call'.op = "time_up_and_try_to_restart"
        /\ ~(timer.running /\ now - timer.start_time >= timer.duration)) =>
            /\ call'.ret.b = FALSE
            /\ timer' = timer
            /\ get_remaining_time(timer', now') = get_remaining_time(timer, now)]_vars

C6_Witness ==
    /\ status = "live" /\ call.op = "time_up_and_try_to_restart" /\ call.ret.b = FALSE
    /\ timer.running /\ now > timer.start_time
    /\ get_remaining_time(timer, now) < timer.duration

\* C7: change_duration(x) with x <= 0 raises nothing and changes neither the
\* duration, the start reference nor the running flag, started or not.
C7_NonPositiveChangeIgnored ==
    [][(call'.op = "change_duration" /\ call'.arg <= 0) =>
            /\ timer' = timer
            /\ status' = "live"
            /\ call'.ret.err = ""]_vars

C7_Witness ==
    /\ status = "live" /\ call.op = "change_duration" /\ call.arg <= 0
    /\ timer.running /\ timer.duration > 0

\* C8: change_duration(x) with x > 0 sets the duration to x and leaves the
\* running flag and the start reference alone; on a timer not yet started
\* get_remaining_time() is then x.
C8_PositiveChangeSetsDuration ==
    [][(call'.op = "change_duration" /\ call'.arg > 0) =>
            /\ timer'.duration = call'.arg
            /\ timer'.running = timer.running
            /\ timer'.start_time = timer.start_time
            /\ ~timer.running => get_remaining_time(timer', now') = call'.arg]_vars

C8_Witness ==
    /\ status = "live" /\ call.op = "change_duration" /\ call.arg > 0
    /\ call.arg # hist.d /\ timer.duration = call.arg
    /\ ~timer.running /\ now > 0

\* C9: for d > 0, constructing with start_immediately = true gives the state
\* (d, running, start reference = construction time), which is the state of
\* twin, constructed with start_immediately = false and started at the same
\* instant; every later call leaves the two in the same state and returns the
\* same on both.
C9_StartImmediatelyIsConstructThenStart ==
    (status = "live" /\ hist.si /\ hist.d > 0) =>
        /\ timer = twin
        /\ call.ret = twinRet
        /\ timer.running
        /\ call.op = "Timer" =>
             timer = [duration |-> hist.d, start_time |-> now, running |-> TRUE]

C9_Witness ==
    /\ status = "live" /\ hist.si /\ timer = twin
    /\ call.op = "get_remaining_time" /\ call.ret = twinRet
    /\ call.ret.n > 0 /\ call.ret.n < timer.duration

\* C10: in every state of a constructed Timer the duration is strictly
\* positive, so get_percent_complete() divides by a non-zero number.
C10_DurationStaysPositive ==
    status = "live" => timer.duration > 0

\* C10 on timer.cpp alone: there the duration stays positive
C10_CppDurationStaysPositive ==
    status = "live" => (timer.duration > 0 /\ twin.duration > 0)

\* C11: get_remaining_time() is never negative and never above the configured
\* duration: max(0, duration - elapsed) when running, the duration when not,
\* in every state, also after change_duration made the duration shorter than
\* the elapsed time.
C11_RemainingWithinBounds ==
    (status = "live" /\ call.op = "get_remaining_time") =>
        /\ call.ret.n >= 0
        /\ call.ret.n <= timer.duration
        /\ timer.running =>
             call.ret.n = IF timer.duration - (now - timer.start_time) > 0
                          THEN timer.duration - (now - timer.start_time) ELSE 0
        /\ ~timer.running => call.ret.n = timer.duration

\* C11 on timer.cpp alone, where it holds of the query made in any state
C11_CppRemainingWithinBounds ==
    /\ C11_RemainingWithinBounds
    /\ status = "live" =>
         /\ get_remaining_time(timer, now) >= 0
         /\ get_remaining_time(timer, now) <= timer.duration

\* C12: get_percent_complete() is always in [0.0, 1.0]: 0.0 when not running,
\* else elapsed / duration capped at 1.0.
C12_PercentWithinUnitInterval ==
    (status = "live" /\ call.op = "get_percent_complete") =>
        /\ LessEq(Zero, call.ret.q)
        /\ LessEq(call.ret.q, One)
        /\ ~timer.running => call.ret.q = Zero

\* C12 on timer.cpp alone, where it holds of the query made in any state and
\* the value is elapsed / duration below 1.0
C12_CppPercentWithinUnitInterval ==
    /\ C12_PercentWithinUnitInterval
    /\ (status = "live" /\ call.op = "get_percent_complete" /\ timer.running) =>
         call.ret.q = IF now - timer.start_time < timer.duration
                      THEN Div(now - timer.start_time, timer.duration) ELSE One
    /\ status = "live" =>
         /\ LessEq(Zero, get_percent_complete(timer, now))
         /\ LessEq(get_percent_complete(timer, now), One)

\* C13: start() never fails and from any state sets running and sets the start
\* reference to the clock, so that at that instant time_up() is false,
\* get_remaining_time() is the duration and get_percent_complete() is 0.0.
C13_StartResetsCountdown ==
    (status = "live" /\ call.op = "start") =>
        /\ call.ret.err = ""
        /\ timer.running
        /\ timer.start_time = now
        /\ hpp_time_up(timer, now) = FALSE
        /\ hpp_get_remaining_time(timer, now) = timer.duration
        /\ hpp_get_percent_complete(timer, now) = Zero

\* C13 on timer.cpp alone: start() from any state of a validly constructed
\* Timer restarts the countdown
C13_CppStartResetsCountdown ==
    [][call'.op = "start" =>
            /\ status' = "live"
            /\ call'.ret.err = ""
            /\ timer'.running
            /\ timer'.start_time = now'
            /\ timer'.duration = timer.duration
            /\ time_up(timer', now') = FALSE
            /\ get_remaining_time(timer', now') = timer.duration
            /\ get_percent_complete(timer', now') = Zero]_vars

\* C14: the running flag is false after construction without start_immediately;
\* once start() has been performed (directly, by the constructor or by
\* time_up_and_try_to_restart) it is true in every later state.
C14_RunningNeverCleared ==
    [][/\ (status = "live" /\ timer.running) => timer'.running
       /\ (status' = "live" /\ call'.op = "Timer" /\ ~call'.flag) => ~timer'.running
       /\ (status' = "live" /\ hist'.started) => timer'.running
       /\ (status' = "live" /\ ~hist'.started) => ~timer'.running]_vars

C14_Witness ==
    /\ status = "live" /\ ~hist.si /\ timer.running
    /\ hist.changed /\ hist.up /\ hist.hasPulse
    /\ call.op = "change_duration"

\* C15: time_up(), get_remaining_time() and get_percent_complete() change
\* neither the duration, the start reference nor the running flag (nor the
\* clock), so what any later call does is what it would have done without them.
C15_QueriesHaveNoSideEffects ==
    [][call'.op \in {"time_up", "get_remaining_time", "get_percent_complete"} =>
            /\ timer' = timer
            /\ now' = now
            /\ status' = status
            /\ time_up_and_try_to_restart(timer', now', now')
                 = time_up_and_try_to_restart(timer, now, now)]_vars

C15_Witness ==
    /\ status = "live" /\ call.op = "time_up" /\ call.ret.b = TRUE
    /\ timer.running /\ polled.hasRem /\ polled.hasPct

\* C16: a restart made by time_up_and_try_to_restart() is anchored to the clock
\* time t of the poll, not to the old start reference plus the duration: the
\* next expiry instant is t + duration, a late poll moves the reference by more
\* than the duration, and with no change_duration in between two true results
\* are at least the duration apart.
C16_RestartAnchoredToPollTime ==
    [][(call'.op = "time_up_and_try_to_restart" /\ call'.ret.b = TRUE) =>
            /\ timer'.start_time = now'
            /\ timer'.start_time >= timer.start_time + timer.duration
            /\ \A c \in now'..(MaxTime + MaxDur) :
                 time_up(timer', c) = (c >= now' + timer'.duration)
            /\ (hist.hasPulse /\ ~hist.pulseCut) =>
                 now' - hist.pulse >= timer.duration]_vars

C16_Witness ==
    /\ status = "live" /\ call.op = "time_up_and_try_to_restart" /\ call.ret.b = TRUE
    /\ ~hist.changed /\ hist.pulse = now
    /\ timer.start_time > hist.d + hist.d

\* C17: change_duration(x) with 0 < x <= elapsed on a running timer that has
\* not expired makes, with no further time passing, time_up() true,
\* get_remaining_time() 0 and get_percent_complete() 1.0.
C17_ShorteningExpiresAtOnce ==
    [][(/\ call'.op = "change_duration"
        /\ timer.running
        /\ now - timer.start_time < timer.duration
        /\ 0 < call'.arg /\ call'.arg <= now - timer.start_time) =>
            /\ now' = now
            /\ time_up(timer', now') = TRUE
            /\ get_remaining_time(timer', now') = 0
            /\ get_percent_complete(timer', now') = One]_vars

C17_Witness ==
    /\ status = "live" /\ call.op = "change_duration" /\ timer.running
    /\ 0 < call.arg /\ call.arg <= now - timer.start_time
    /\ now - timer.start_time < hist.prev
    /\ timer.duration = call.arg

\* C19: time_up_and_try_to_restart() does not return true twice at one clock
\* instant: after it returned true, a call with no time elapsed returns false.
C19_NoDoublePulse ==
    [][(/\ call'.op = "time_up_and_try_to_restart"
        /\ hist.hasPulse /\ hist.pulse = now) =>
            call'.ret.b = FALSE]_vars

C19_Witness ==
    /\ status = "live" /\ call.op = "time_up_and_try_to_restart" /\ call.ret.b = FALSE
    /\ hist.hasPulse /\ hist.pulse = now /\ timer.start_time = now

\* C18: at one instant the three queries on a running timer agree on expiry:
\* time_up() is true exactly when get_remaining_time() is 0, exactly when
\* get_percent_complete() is 1.0, in every state, also after change_duration.
C18_QueriesAgreeOnExpiry ==
    (status = "live" /\ timer.running) =>
        /\ fp_time_up(timer, now) = (fp_get_remaining_time(timer, now) = Zero)
        /\ fp_time_up(timer, now) = (fp_get_percent_complete(timer, now) = One)

\* C18 for whole seconds on timer.cpp, where no operation rounds: there the
\* three queries agree
C18_CppWholeSecondsAgree ==
    (status = "live" /\ timer.running) =>
        /\ time_up(timer, now) = (get_remaining_time(timer, now) = 0)
        /\ time_up(timer, now) = (get_percent_complete(timer, now) = One)

\* the two queries that convert the elapsed time the same way do agree under
\* rounding
C18_FpRemainingAgreesWithPercent ==
    (status = "live" /\ timer.running) =>
        (fp_get_remaining_time(timer, now) = Zero)
            = (fp_get_percent_complete(timer, now) = One)

\* C20: a started timer expires.  From any state of a running timer whose
\* expiry instant start_time + duration lies within the clock's range, with the
\* clock advancing and the caller polling, time_up() eventually returns true
\* unless start(), change_duration() or a restart comes first; and
\* time_up_and_try_to_restart() eventually returns true unless start() or
\* change_duration() comes first (so it does again after every restart).
C20_StartedTimerExpires ==
    /\ (status = "live" /\ timer.running
            /\ timer.start_time + timer.duration <= MaxTime)
         ~> \/ (call.op = "time_up" /\ call.ret.b)
            \/ call.op \in {"start", "change_duration"}
            \/ (call.op = "time_up_and_try_to_restart" /\ call.ret.b)
    /\ (status = "live" /\ timer.running
            /\ timer.start_time + timer.duration <= MaxTime)
         ~> \/ (call.op = "time_up_and_try_to_restart" /\ call.ret.b)
            \/ call.op \in {"start", "change_duration"}

C20_Witness ==
    /\ status = "live" /\ call.op = "time_up" /\ call.ret.b = TRUE
    /\ hist.started /\ ~hist.changed /\ ~hist.hasPulse
    /\ now - timer.start_time > timer.duration

====
